---- MODULE Spec2Model ----
(***************************************************************************)
(* Model of tools/migrate_log_levels.py of thread_system: the log_level -> *)
(* log_level_v2 source rewriter.  Text is modelled as TLA+ strings, one    *)
(* character per element, so the regular expressions of the tool are       *)
(* evaluated character by character as Python's re module evaluates them.  *)
(***************************************************************************)
EXTENDS Integers, Sequences, FiniteSets, TLC

VARIABLES
    lineIn,       \* migrate_line: the line handed to migrate_line
    lineOut,      \* migrate_line: new_line of the last call
    lineChanged,  \* migrate_line: was_changed of the last call
    linePass,     \* number of migrate_line calls made (0, 1, 2)
    filePath,     \* migrate_file: the filepath argument
    fileReadable, \* migrate_file: whether open(filepath, 'r') succeeds
    fileContent,  \* migrate_file: the text the file holds on disk
    fileResult,       \* migrate_file: the MigrationResult of the last call
    filePrev,   \* migrate_file: the MigrationResult of the call before
    fileCalls,    \* number of migrate_file calls made (0, 1, 2)
    args,         \* main: the parsed command line
    fs,           \* the file system: path -> content, or NoFile
    bak,          \* the file system: path -> content of <path>.bak, or NoFile
    pc,           \* main: position of the process
    files,        \* main: the list find_files returned
    idx,          \* main: 1-based index into files of the for loop
    result,       \* main: the MigrationResult of the current file
    total_changes,
    files_changed,
    files_skipped,
    stdout,       \* what main printed to standard output
    stderr,       \* what main printed to standard error
    exit_code,    \* exit code of the process, None while it runs
    read_from,    \* history: paths opened for reading
    read_failed,  \* history: paths whose read raised
    opened_w,     \* history: paths opened for writing
    copied,       \* history: paths given to shutil.copy2
    fs0,          \* history: the file system when main started
    steps,        \* history: the steps main took, in order: <<step, path, ok>>
    runs,         \* the number of times the tool was started, this run included
    fs_first      \* history: the file system before the first run

lineVars == <<lineIn, lineOut, lineChanged, linePass>>

fileVars == <<filePath, fileReadable, fileContent, fileResult, filePrev, fileCalls>>

runVars == <<args, fs, bak, pc, files, idx, result, total_changes, files_changed,
             files_skipped, stdout, stderr, exit_code,
             read_from, read_failed, opened_w, copied, fs0, steps, runs, fs_first>>

vars == <<lineIn, lineOut, lineChanged, linePass,
          filePath, fileReadable, fileContent, fileResult, filePrev, fileCalls,
          args, fs, bak, pc, files, idx, result, total_changes, files_changed,
          files_skipped, stdout, stderr, exit_code,
          read_from, read_failed, opened_w, copied, fs0, steps, runs, fs_first>>

----------------------------------------------------------------------------
(* Bounds *)

\* longest line of the line-level specification, in atoms
MaxAtoms == 3

\* longest file of the file-level specification, in lines
MaxLines == 3

\* most supported source files present under the root of a run
MaxFiles == 3

\* most consecutive runs of the tool over the same files
MaxRuns == 2

----------------------------------------------------------------------------
(* Characters and small string helpers (Python str semantics) *)

LowerChars == {"a","b","c","d","e","f","g","h","i","j","k","l","m",
               "n","o","p","q","r","s","t","u","v","w","x","y","z"}
UpperChars == {"A","B","C","D","E","F","G","H","I","J","K","L","M",
               "N","O","P","Q","R","S","T","U","V","W","X","Y","Z"}
DigitChars == {"0","1","2","3","4","5","6","7","8","9"}

\* \w of Python's re for the ASCII characters
IsWordChar(c) == c \in LowerChars \cup UpperChars \cup DigitChars \cup {"_"}

\* \s of Python's re for the ASCII characters used here
IsSpaceChar(c) == c \in {" ", "\t", "\n", "\r", "\f"}

CharAt(s, i) == SubSeq(s, i, i)

\* s[i:].startswith(p), i 1-based
StartsWithAt(s, i, p) ==
    /\ i >= 1
    /\ i + Len(p) - 1 <= Len(s)
    /\ SubSeq(s, i, i + Len(p) - 1) = p

\* s[:i-1].endswith(p): p ends right before position i
EndsBefore(s, i, p) ==
    /\ i - Len(p) >= 1
    /\ SubSeq(s, i - Len(p), i - 1) = p

\* p in s
Contains(s, p) == \E i \in 1..(Len(s) - Len(p) + 1) : StartsWithAt(s, i, p)

\* \b of Python's re at the gap before position i (i in 1..Len(s)+1)
WordBoundary(s, i) ==
    LET before == i > 1 /\ IsWordChar(CharAt(s, i - 1))
        after  == i <= Len(s) /\ IsWordChar(CharAt(s, i))
    IN  before # after

----------------------------------------------------------------------------
(* Mapping table and migration pattern *)

LEVEL_MAPPINGS_passthrough ==
    [k \in {"trace", "debug", "info", "warning", "error", "critical"} |-> k]

LEVEL_MAPPINGS ==
    [k \in {"trace", "debug", "info", "warning", "error", "critical"} |->
        IF k = "warning" THEN "warn" ELSE k]

\* LEVEL_MAPPINGS.keys(), in insertion order: the order of the alternation
LevelKeys == <<"trace", "debug", "info", "warning", "error", "critical">>

\* the alternatives of (trace|debug|...) followed by \b that match at i
LevelAlternativesAt(s, i) ==
    { n \in 1..Len(LevelKeys) :
        /\ StartsWithAt(s, i, LevelKeys[n])
        /\ WordBoundary(s, i + Len(LevelKeys[n])) }

\* mutant: the two negative lookbehinds dropped
create_migration_pattern_no_lookbehind(s, i) ==
    IF /\ WordBoundary(s, i)
       /\ StartsWithAt(s, i, "log_level::")
       /\ LevelAlternativesAt(s, i + 11) # {}
    THEN LevelKeys[CHOOSE n \in LevelAlternativesAt(s, i + 11) :
                     \A m \in LevelAlternativesAt(s, i + 11) : n <= m]
    ELSE ""

\* mutant: the \b before log_level dropped
create_migration_pattern_no_boundary(s, i) ==
    IF /\ ~ EndsBefore(s, i, "log_level_v2::")
       /\ ~ EndsBefore(s, i, "_v2::")
       /\ StartsWithAt(s, i, "log_level::")
       /\ LevelAlternativesAt(s, i + 11) # {}
    THEN LevelKeys[CHOOSE n \in LevelAlternativesAt(s, i + 11) :
                     \A m \in LevelAlternativesAt(s, i + 11) : n <= m]
    ELSE ""

\* (?<!log_level_v2::)(?<!_v2::)\blog_level::(levels)\b tried at position i:
\* group(1) of the match, or "" when the pattern does not match at i
create_migration_pattern(s, i) ==
    IF /\ ~ EndsBefore(s, i, "log_level_v2::")
       /\ ~ EndsBefore(s, i, "_v2::")
       /\ WordBoundary(s, i)
       /\ StartsWithAt(s, i, "log_level::")
       /\ LevelAlternativesAt(s, i + 11) # {}
    THEN LevelKeys[CHOOSE n \in LevelAlternativesAt(s, i + 11) :
                     \A m \in LevelAlternativesAt(s, i + 11) : n <= m]
    ELSE ""

\* mutant: the replacement is a legacy reference again
replace_match_still_legacy(k) ==
    IF k = "critical" THEN "log_level::error" ELSE "log_level::critical"

\* replace_match: the replacement text for a match whose group(1) is k
replace_match(k) ==
    "log_level_v2::" \o (IF k \in DOMAIN LEVEL_MAPPINGS THEN LEVEL_MAPPINGS[k] ELSE k)

\* the positions at or after i where the pattern matches (a match is at
\* least len("log_level::info") = 15 characters long)
MatchesFrom(s, i) ==
    { j \in i..(Len(s) - 14) :
        StartsWithAt(s, j, "log_level::") /\ create_migration_pattern(s, j) # "" }

\* pattern.sub(replace_match, s) from position i on: leftmost
\* non-overlapping matches, the lookbehinds reading the original string
RECURSIVE pattern_sub(_, _)
pattern_sub(s, i) ==
    LET found == MatchesFrom(s, i)
    IN  IF found = {} THEN SubSeq(s, i, Len(s))
        ELSE LET j == CHOOSE m \in found : \A n \in found : m <= n
                 k == create_migration_pattern(s, j)
             IN  SubSeq(s, i, j - 1) \o replace_match(k)
                     \o pattern_sub(s, j + 11 + Len(k))

\* the start positions of the matches pattern.sub replaces in s
RECURSIVE MatchStarts(_, _)
MatchStarts(s, i) ==
    LET found == MatchesFrom(s, i)
    IN  IF found = {} THEN {}
        ELSE LET j == CHOOSE m \in found : \A n \in found : m <= n
             IN  {j} \cup MatchStarts(s, j + 11 + Len(create_migration_pattern(s, j)))

\* mutant: the new line compared with the stripped line
migrate_line_vs_stripped(line) ==
    LET new_line == pattern_sub(line, 1)
        solid == { i \in 1..Len(line) : CharAt(line, i) # " " }
        stripped == IF solid = {} THEN ""
                    ELSE SubSeq(line, CHOOSE i \in solid : \A j \in solid : i <= j,
                                      CHOOSE i \in solid : \A j \in solid : i >= j)
    IN  [new_line |-> new_line, changed |-> new_line # stripped]

migrate_line(line) ==
    LET new_line == pattern_sub(line, 1)
    IN  [new_line |-> new_line, changed |-> new_line # line]

----------------------------------------------------------------------------
(* Lines, skip filter, include injector *)

\* content.split('\n'): the n-th line runs from after the (n-1)-th newline
\* to before the n-th
Split(s) ==
    LET nl == { i \in 1..Len(s) : CharAt(s, i) = "\n" }
        nth(n) == IF n = 0 THEN 0
                  ELSE IF n > Cardinality(nl) THEN Len(s) + 1
                  ELSE CHOOSE p \in nl : Cardinality({ q \in nl : q < p }) = n - 1
    IN  [ n \in 1..(Cardinality(nl) + 1) |-> SubSeq(s, nth(n - 1) + 1, nth(n) - 1) ]

\* mutant: every line terminated, a newline after the last line too
RECURSIVE Join_terminated(_)
Join_terminated(lines) ==
    IF Len(lines) = 0 THEN ""
    ELSE lines[1] \o "\n" \o Join_terminated(Tail(lines))

\* '\n'.join(lines)
RECURSIVE Join(_)
Join(lines) ==
    IF Len(lines) = 0 THEN ""
    ELSE IF Len(lines) = 1 THEN lines[1]
         ELSE lines[1] \o "\n" \o Join(Tail(lines))

\* str.strip()
Strip(s) ==
    LET solid == { i \in 1..Len(s) : ~ IsSpaceChar(CharAt(s, i)) }
    IN  IF solid = {} THEN ""
        ELSE SubSeq(s, CHOOSE i \in solid : \A j \in solid : i <= j,
                       CHOOSE i \in solid : \A j \in solid : i >= j)

\* the first position at or after i that holds no whitespace (\s* is greedy
\* and what follows it in both patterns is not whitespace)
RECURSIVE SkipSpaces(_, _)
SkipSpaces(s, i) ==
    IF i <= Len(s) /\ IsSpaceChar(CharAt(s, i)) THEN SkipSpaces(s, i + 1) ELSE i

\* os.path.basename(filepath)
RECURSIVE basename(_)
basename(filepath) ==
    IF Contains(filepath, "/")
    THEN basename(SubSeq(filepath,
                         (CHOOSE i \in 1..Len(filepath) : CharAt(filepath, i) = "/") + 1,
                         Len(filepath)))
    ELSE filepath

\* the literal texts the two SKIP_PATTERNS regular expressions match
SKIP_PATTERNS == <<"logger_interface.h", "thread_logger.h">>

\* mutant: the skip filter never matches
should_skip_file_never(filepath) == [skip |-> FALSE, reason |-> ""]

should_skip_file(filepath) ==
    LET filename == basename(filepath)
        hits == { n \in 1..Len(SKIP_PATTERNS) : Contains(filename, SKIP_PATTERNS[n]) }
    IN  IF hits # {}
        THEN [skip |-> TRUE,
              reason |-> "Matches skip pattern: "
                         \o SKIP_PATTERNS[CHOOSE n \in hits : \A m \in hits : n <= m]]
        ELSE [skip |-> FALSE, reason |-> ""]

\* re.search(r'#include\s*[<"].*log_level\.h[>"]', content)
HasLogLevelInclude(content) ==
    \E i \in 1..Len(content) :
        /\ StartsWithAt(content, i, "#include")
        /\ LET j == SkipSpaces(content, i + 8)
           IN  /\ j <= Len(content)
               /\ CharAt(content, j) \in {"<", "\""}
               /\ \E k \in (j + 1)..Len(content) :
                    /\ \A m \in (j + 1)..(k - 1) : CharAt(content, m) # "\n"
                    /\ StartsWithAt(content, k, "log_level.h")
                    /\ k + 11 <= Len(content)
                    /\ CharAt(content, k + 11) \in {">", "\""}

needs_include_update(content) ==
    IF Contains(content, "log_level_v2::")
    THEN IF HasLogLevelInclude(content) THEN FALSE ELSE TRUE
    ELSE FALSE

\* re.search(r'#include\s*[<"]kcenon/thread/', line)
IsThreadInclude(line) ==
    \E i \in 1..Len(line) :
        /\ StartsWithAt(line, i, "#include")
        /\ LET j == SkipSpaces(line, i + 8)
           IN  /\ j <= Len(line)
               /\ CharAt(line, j) \in {"<", "\""}
               /\ StartsWithAt(line, j + 1, "kcenon/thread/")

\* re.match(r'#ifndef\s+\w+_H', line)
IsHeaderGuard(line) ==
    /\ StartsWithAt(line, 1, "#ifndef")
    /\ 8 <= Len(line)
    /\ IsSpaceChar(CharAt(line, 8))
    /\ LET p == SkipSpaces(line, 8)
       IN  \E q \in (p + 1)..Len(line) :
              /\ \A m \in p..(q - 1) : IsWordChar(CharAt(line, m))
              /\ StartsWithAt(line, q, "_H")

include_line == "#include <kcenon/thread/core/log_level.h>"

\* mutant: a kcenon/thread include sets insert_index only while it is unset
RECURSIVE ScanIncludes_first_wins(_, _, _)
ScanIncludes_first_wins(lines, i, found) ==
    IF i > Len(lines) THEN found
    ELSE IF StartsWithAt(lines[i], 1, "#include") /\ found = -1
         THEN ScanIncludes_first_wins(lines, i + 1, i)
    ELSE ScanIncludes_first_wins(lines, i + 1, found)

\* the first loop of add_log_level_include over lines[i..], found being
\* the value of insert_index so far (0-based, -1 when unset)
RECURSIVE ScanIncludes(_, _, _)
ScanIncludes(lines, i, found) ==
    IF i > Len(lines) THEN found
    ELSE IF IsThreadInclude(lines[i]) THEN ScanIncludes(lines, i + 1, i)
    ELSE IF StartsWithAt(lines[i], 1, "#include") /\ found = -1
         THEN ScanIncludes(lines, i + 1, i)
    ELSE ScanIncludes(lines, i + 1, found)

\* mutant: guards are not looked for, the insertion point is the top
ScanGuards_top(lines) == 0

\* the second loop: after the first header guard or pragma, else 0
ScanGuards(lines) ==
    LET hits == { i \in 1..Len(lines) :
                    \/ StartsWithAt(lines[i], 1, "#pragma once")
                    \/ IsHeaderGuard(lines[i]) }
    IN  IF hits # {} THEN CHOOSE i \in hits : \A m \in hits : i <= m ELSE 0

\* list.insert(index, item), index 0-based
ListInsert(lines, index, item) ==
    SubSeq(lines, 1, index) \o << item >> \o SubSeq(lines, index + 1, Len(lines))

add_log_level_include(content) ==
    LET lines == Split(content)
        scanned == ScanIncludes(lines, 1, -1)
        insert_index == IF scanned = -1 THEN ScanGuards(lines) ELSE scanned
    IN  IF ~ Contains(content, include_line)
        THEN Join(ListInsert(lines, insert_index, include_line))
        ELSE Join(lines)

----------------------------------------------------------------------------
(* migrate_file *)

None == "<None>"

\* MigrationResult.__init__
MigrationResult(path) ==
    [path |-> path, original_content |-> "", new_content |-> "",
     changes |-> << >>, skipped |-> FALSE, skip_reason |-> "", error |-> None]

\* mutant: the entries carry the 0-based index of the line
RECURSIVE CollectChanges_zero_based(_, _)
CollectChanges_zero_based(lines, i) ==
    IF i > Len(lines) THEN << >>
    ELSE LET m == migrate_line(lines[i])
         IN  (IF m.changed
              THEN << << i - 1, Strip(lines[i]), Strip(m.new_line) >> >>
              ELSE << >>) \o CollectChanges_zero_based(lines, i + 1)

\* the for loop of migrate_file over lines[i..]: the changes list
RECURSIVE CollectChanges(_, _)
CollectChanges(lines, i) ==
    IF i > Len(lines) THEN << >>
    ELSE LET m == migrate_line(lines[i])
         IN  (IF m.changed
              THEN << << i, Strip(lines[i]), Strip(m.new_line) >> >>
              ELSE << >>) \o CollectChanges(lines, i + 1)

\* mutant: the include injection does not ask for changes
migrate_file_injecting_unchanged(filepath, readable, content) ==
    LET res == MigrationResult(filepath)
        skip == should_skip_file(filepath)
        lines == Split(content)
        new_lines == [i \in 1..Len(lines) |-> migrate_line(lines[i]).new_line]
        changes == CollectChanges(lines, 1)
        joined == Join(new_lines)
    IN  IF skip.skip
        THEN [res EXCEPT !.skipped = TRUE, !.skip_reason = skip.reason]
        ELSE IF ~ readable
        THEN [res EXCEPT !.error = "Failed to read file"]
        ELSE [res EXCEPT
                !.original_content = content,
                !.changes = changes,
                !.new_content =
                    IF needs_include_update(joined)
                    THEN add_log_level_include(joined)
                    ELSE joined]

\* migrate_file on a file whose read raises (readable = FALSE) or yields
\* content
migrate_file(filepath, readable, content) ==
    LET res == MigrationResult(filepath)
        skip == should_skip_file(filepath)
        lines == Split(content)
        new_lines == [i \in 1..Len(lines) |-> migrate_line(lines[i]).new_line]
        changes == CollectChanges(lines, 1)
        joined == Join(new_lines)
    IN  IF skip.skip
        THEN [res EXCEPT !.skipped = TRUE, !.skip_reason = skip.reason]
        ELSE IF ~ readable
        THEN [res EXCEPT !.error = "Failed to read file"]
        ELSE [res EXCEPT
                !.original_content = content,
                !.changes = changes,
                !.new_content =
                    IF changes # << >> /\ needs_include_update(joined)
                    THEN add_log_level_include(joined)
                    ELSE joined]

----------------------------------------------------------------------------
(* Line-level specification: migrate_line applied to bounded lines *)

\* the pieces lines are built from: qualifiers, prefixes, level names,
\* suffixes and separators
Atoms ==
    {"log_level::", "log_level_v2::", "_v2::", "my_", "ns::", " ", "_count",
     "log_level::error, ",
     "trace", "debug", "info", "warning", "error", "critical", "warn"}

RECURSIVE AtomLines(_)
AtomLines(n) ==
    IF n = 0 THEN {""}
    ELSE LET shorter == AtomLines(n - 1)
         IN  shorter \cup { l \o a : l \in shorter, a \in Atoms }

LineIdle ==
    /\ lineIn = ""
    /\ lineOut = ""
    /\ lineChanged = FALSE
    /\ linePass = 0

FileIdle ==
    /\ filePath = ""
    /\ fileReadable = TRUE
    /\ fileContent = ""
    /\ fileResult = MigrationResult("")
    /\ filePrev = MigrationResult("")
    /\ fileCalls = 0

RunIdle ==
    /\ args = [path |-> "", dry_run |-> TRUE, diff |-> FALSE,
               verbose |-> FALSE, backup |-> FALSE]
    /\ fs = [p \in {} |-> ""]
    /\ bak = [p \in {} |-> ""]
    /\ pc = "idle"
    /\ files = << >>
    /\ idx = 0
    /\ result = MigrationResult("")
    /\ total_changes = 0
    /\ files_changed = 0
    /\ files_skipped = 0
    /\ stdout = << >>
    /\ stderr = << >>
    /\ exit_code = None
    /\ read_from = {}
    /\ read_failed = {}
    /\ opened_w = {}
    /\ copied = {}
    /\ fs0 = [p \in {} |-> ""]
    /\ steps = << >>
    /\ runs = 0
    /\ fs_first = [p \in {} |-> ""]

InitLine ==
    /\ lineIn \in AtomLines(MaxAtoms)
    /\ lineOut = ""
    /\ lineChanged = FALSE
    /\ linePass = 0
    /\ FileIdle
    /\ RunIdle

\* new_line, changed = migrate_line(line, pattern)
MigrateLine ==
    /\ linePass = 0
    /\ lineOut' = migrate_line(lineIn).new_line
    /\ lineChanged' = migrate_line(lineIn).changed
    /\ linePass' = 1
    /\ UNCHANGED lineIn
    /\ UNCHANGED fileVars
    /\ UNCHANGED runVars

\* migrate_line applied to the line a first call produced
RemigrateLine ==
    /\ linePass = 1
    /\ lineIn' = lineOut
    /\ lineOut' = migrate_line(lineOut).new_line
    /\ lineChanged' = migrate_line(lineOut).changed
    /\ linePass' = 2
    /\ UNCHANGED fileVars
    /\ UNCHANGED runVars

NextLine == MigrateLine \/ RemigrateLine

SpecLine == InitLine /\ [][NextLine]_vars

----------------------------------------------------------------------------
(* File-level specification: migrate_file applied to bounded files *)

\* the lines files are built from: legacy and migrated uses, include
\* directives, guards, blank
FileLines ==
    {"x = log_level::warning;",
     "  f(ns::log_level::info, log_level::error);",
     "y = log_level_v2::debug;",
     "#include <kcenon/thread/a.h>",
     "#include <vector>",
     "#include <kcenon/thread/core/log_level.h>",
     "#include \"my_log_level.h\"",
     "#pragma once",
     "#ifndef A_H",
     ""}

RECURSIVE FileContents(_)
FileContents(n) ==
    IF n = 1 THEN FileLines
    ELSE LET shorter == FileContents(n - 1)
         IN  shorter \cup { c \o "\n" \o l : c \in shorter, l \in FileLines }

FilePaths == {"src/a.cpp", "src/logger_interface.h"}

InitFile ==
    /\ filePath \in FilePaths
    /\ fileReadable \in BOOLEAN
    /\ fileContent \in FileContents(MaxLines)
    /\ fileResult = MigrationResult("")
    /\ filePrev = MigrationResult("")
    /\ fileCalls = 0
    /\ LineIdle
    /\ RunIdle

\* fileResult = migrate_file(filepath)
MigrateFile ==
    /\ fileCalls = 0
    /\ fileResult' = migrate_file(filePath, fileReadable, fileContent)
    /\ filePrev' = fileResult
    /\ fileCalls' = 1
    /\ UNCHANGED <<filePath, fileReadable, fileContent>>
    /\ UNCHANGED lineVars
    /\ UNCHANGED runVars

\* the file holds what a run writes (new_content when there are changes)
\* and migrate_file is called on it again
RemigrateFile ==
    /\ fileCalls = 1
    /\ LET written == IF fileResult.changes # << >> THEN fileResult.new_content ELSE fileContent
       IN  /\ fileContent' = written
           /\ fileResult' = migrate_file(filePath, fileReadable, written)
    /\ filePrev' = fileResult
    /\ fileCalls' = 2
    /\ UNCHANGED <<filePath, fileReadable>>
    /\ UNCHANGED lineVars
    /\ UNCHANGED runVars

NextFile == MigrateFile \/ RemigrateFile

SpecFile == InitFile /\ [][NextFile]_vars

----------------------------------------------------------------------------
(* File discovery *)

SUPPORTED_EXTENSIONS == {".cpp", ".hpp", ".h", ".cc", ".cxx", ".hxx"}

NoFile == "<no file>"

\* the characters of paths in code point order, for sorted()
AsciiOrder == "./0123456789ABCDEFGHIJKLMNOPQRSTUVWXYZ_abcdefghijklmnopqrstuvwxyz"

CharRank(c) == CHOOSE i \in 1..Len(AsciiOrder) : CharAt(AsciiOrder, i) = c

\* a < b for Python str
StringLess(a, b) ==
    LET differ == { i \in 1..Len(a) : i > Len(b) \/ CharAt(a, i) # CharAt(b, i) }
    IN  IF differ = {} THEN Len(a) < Len(b)
        ELSE LET d == CHOOSE i \in differ : \A j \in differ : i <= j
             IN  d <= Len(b) /\ CharRank(CharAt(a, d)) < CharRank(CharAt(b, d))

\* mutant: the list comes out in descending order
RECURSIVE sorted_descending(_)
sorted_descending(S) ==
    IF S = {} THEN << >>
    ELSE LET least == CHOOSE a \in S : \A b \in S \ {a} : StringLess(a, b)
         IN  sorted_descending(S \ {least}) \o << least >>

\* sorted(S) for a set of distinct strings
RECURSIVE sorted(_)
sorted(S) ==
    IF S = {} THEN << >>
    ELSE LET least == CHOOSE a \in S : \A b \in S \ {a} : StringLess(a, b)
         IN  << least >> \o sorted(S \ {least})

\* Path(p).suffix
suffix(path) ==
    LET name == basename(path)
        dots == { i \in 2..Len(name) : CharAt(name, i) = "." }
    IN  IF dots = {} THEN ""
        ELSE SubSeq(name, CHOOSE i \in dots : \A j \in dots : i >= j, Len(name))

\* the directory of the runs; it always exists
RootDir == "src"

\* every path of the modelled file system lies directly under RootDir
IsFile(f, path) == path \in DOMAIN f /\ f[path] # NoFile

\* mutant: the existence check always succeeds
os_path_exists_always(f, path) == TRUE

\* os.path.exists(path)
os_path_exists(f, path) == path = RootDir \/ IsFile(f, path)

\* find_files(path) on file system f
find_files(f, path) ==
    IF IsFile(f, path)
    THEN IF suffix(path) \in SUPPORTED_EXTENSIONS THEN << path >> ELSE << >>
    ELSE IF path = RootDir
         THEN sorted({ q \in DOMAIN f : IsFile(f, q) /\ suffix(q) \in SUPPORTED_EXTENSIONS })
         ELSE << >>

----------------------------------------------------------------------------
(* main *)

\* print_diff(result): the diff is printed unless nothing changed
print_diff(r) ==
    IF r.changes = << >> /\ r.original_content = r.new_content
    THEN << >>
    ELSE << << "diff", r.path >> >>

\* lines 289-297: the report of a changed file
report(a, r) ==
    IF a.diff THEN print_diff(r) \o << << "" >> >>
    ELSE IF a.verbose \/ a.dry_run
         THEN << << (IF a.dry_run THEN "Would modify" ELSE "Modified"), r.path,
                    Len(r.changes) >> >>
         ELSE << >>

\* mutant: the file is written in a dry run too
writes_file_always(a) == TRUE

\* line 299: if not args.dry_run
writes_file(a) == ~ a.dry_run

RunPaths == {"src/a.cpp", "src/logger_interface.h", "src/m.cc", "src/z.hpp"}

OtherPath == "src/notes.txt"

RunContents ==
    {"x = log_level::error;",
     "y = log_level_v2::debug;",
     "#pragma once\nf(log_level::warning, log_level::info);\nz = log_level::trace;"}

Init ==
    /\ args \in [path : {RootDir, "src/a.cpp", OtherPath, "nowhere"},
                 dry_run : BOOLEAN, diff : BOOLEAN,
                 verbose : BOOLEAN, backup : BOOLEAN]
    /\ fs \in { f \in [RunPaths \cup {OtherPath} -> RunContents \cup {NoFile}] :
                  /\ f[OtherPath] = "y = log_level_v2::debug;"
                  /\ Cardinality({ q \in RunPaths : f[q] # NoFile }) <= MaxFiles }
    /\ bak = [q \in RunPaths \cup {OtherPath} |-> NoFile]
    /\ pc = "start"
    /\ files = << >>
    /\ idx = 0
    /\ result = MigrationResult("")
    /\ total_changes = 0
    /\ files_changed = 0
    /\ files_skipped = 0
    /\ stdout = << >>
    /\ stderr = << >>
    /\ exit_code = None
    /\ read_from = {}
    /\ read_failed = {}
    /\ opened_w = {}
    /\ copied = {}
    /\ fs0 = fs
    /\ steps = << >>
    /\ runs = 1
    /\ fs_first = fs
    /\ LineIdle
    /\ FileIdle

\* lines 251-253: if not os.path.exists(args.path): ... sys.exit(1)
CheckPath ==
    /\ pc = "start"
    /\ IF ~ os_path_exists(fs, args.path)
       THEN /\ stderr' = Append(stderr, << "Error: Path does not exist", args.path >>)
            /\ exit_code' = 1
            /\ pc' = "exited"
       ELSE /\ pc' = "find"
            /\ UNCHANGED <<stderr, exit_code>>
    /\ UNCHANGED <<args, fs0, runs, fs_first, fs, bak, files, idx, result, total_changes, files_changed,
                   files_skipped, stdout, read_from, read_failed, opened_w, copied>>
    /\ UNCHANGED steps
    /\ UNCHANGED lineVars
    /\ UNCHANGED fileVars

\* lines 255-266: files = find_files(args.path), the empty case, the counters
FindFiles ==
    /\ pc = "find"
    /\ files' = find_files(fs, args.path)
    /\ IF files' = << >>
       THEN /\ stdout' = Append(stdout, << "No supported files found in", args.path >>)
            /\ exit_code' = 0
            /\ pc' = "exited"
            /\ UNCHANGED idx
       ELSE /\ stdout' = IF args.verbose
                         THEN Append(stdout, << "Found", Len(files') >>)
                         ELSE stdout
            /\ idx' = 1
            /\ pc' = "loop"
            /\ UNCHANGED exit_code
    /\ total_changes' = 0
    /\ files_changed' = 0
    /\ files_skipped' = 0
    /\ UNCHANGED <<args, fs0, runs, fs_first, fs, bak, result, stderr,
                   read_from, read_failed, opened_w, copied>>
    /\ UNCHANGED steps
    /\ UNCHANGED lineVars
    /\ UNCHANGED fileVars

\* lines 181-187 of migrate_file: the content after the substitution and
\* before the include injection
rewritten(content) ==
    LET lines == Split(content)
    IN  Join([i \in 1..Len(lines) |-> migrate_line(lines[i]).new_line])

\* history: the steps lines 164-297 take for one file, in the order of the
\* code: should_skip_file (164), the read (170-175), the rewrite (177-187),
\* add_log_level_include (190-191) and, back in main, the report (289-297)
StepsOfFile(r) ==
    LET read_ok == ~ r.skipped /\ r.error = None
    IN  << << "skip check", r.path, TRUE >> >>
        \o (IF r.skipped THEN << >> ELSE << << "read", r.path, read_ok >> >>)
        \o (IF read_ok THEN << << "rewrite", r.path, TRUE >> >> ELSE << >>)
        \o (IF read_ok /\ r.changes # << >>
                /\ needs_include_update(rewritten(r.original_content))
             THEN << << "inject", r.path, TRUE >> >> ELSE << >>)
        \o (IF read_ok /\ r.changes # << >>
             THEN << << "report", r.path, TRUE >> >> ELSE << >>)

\* lines 268-299 for one file: migrate_file (skip check, read, rewrite,
\* include injection), the three continue branches, the counters and the
\* report; the read either succeeds or raises
ProcessFile ==
    /\ pc = "loop"
    /\ idx <= Len(files)
    /\ \E readable \in BOOLEAN :
         LET filepath == files[idx]
             attempted == ~ should_skip_file(filepath).skip
         IN  /\ result' = migrate_file(filepath, readable, fs[filepath])
             /\ steps' = steps \o StepsOfFile(result')
             /\ read_from' = IF attempted THEN read_from \cup {filepath} ELSE read_from
             /\ read_failed' = IF attempted /\ ~ readable
                               THEN read_failed \cup {filepath} ELSE read_failed
             /\ IF result'.error # None /\ result'.error # ""
                THEN /\ stderr' = Append(stderr, << "Error processing", filepath >>)
                     /\ idx' = idx + 1
                     /\ UNCHANGED <<pc, stdout, total_changes, files_changed, files_skipped>>
                ELSE IF result'.skipped
                THEN /\ files_skipped' = files_skipped + 1
                     /\ stdout' = IF args.verbose
                                  THEN Append(stdout, << "Skipped", filepath, result'.skip_reason >>)
                                  ELSE stdout
                     /\ idx' = idx + 1
                     /\ UNCHANGED <<pc, stderr, total_changes, files_changed>>
                ELSE IF result'.changes = << >>
                THEN /\ stdout' = IF args.verbose
                                  THEN Append(stdout, << "No changes", filepath >>)
                                  ELSE stdout
                     /\ idx' = idx + 1
                     /\ UNCHANGED <<pc, stderr, total_changes, files_changed, files_skipped>>
                ELSE /\ files_changed' = files_changed + 1
                     /\ total_changes' = total_changes + Len(result'.changes)
                     /\ stdout' = stdout \o report(args, result')
                     /\ IF writes_file(args)
                        THEN /\ pc' = IF args.backup THEN "backup" ELSE "open"
                             /\ UNCHANGED idx
                        ELSE /\ idx' = idx + 1
                             /\ UNCHANGED pc
                     /\ UNCHANGED <<stderr, files_skipped>>
    /\ UNCHANGED <<args, fs0, runs, fs_first, fs, bak, files, exit_code, opened_w, copied>>
    /\ UNCHANGED lineVars
    /\ UNCHANGED fileVars

\* an exception nothing catches leaves main: traceback, exit code 1
Uncaught(what, filepath) ==
    /\ stderr' = Append(stderr, << "Traceback", what, filepath >>)
    /\ exit_code' = 1
    /\ pc' = "exited"

\* mutant: the copy is made of the file as the open for writing leaves it
BackupCopy_after_truncate ==
    /\ pc = "backup"
    /\ copied' = copied \cup {files[idx]}
    /\ \E ok \in BOOLEAN :
         /\ steps' = Append(steps, << "backup", files[idx], ok >>)
         /\ IF ok
            THEN /\ bak' = [bak EXCEPT ![files[idx]] = ""]
                 /\ pc' = "open"
                 /\ UNCHANGED <<stderr, exit_code>>
            ELSE /\ Uncaught("copy2", files[idx])
                 /\ UNCHANGED bak
    /\ UNCHANGED <<args, fs0, runs, fs_first, fs, files, idx, result, total_changes, files_changed,
                   files_skipped, stdout, read_from, read_failed, opened_w>>
    /\ UNCHANGED lineVars
    /\ UNCHANGED fileVars

\* line 301: shutil.copy2(filepath, filepath + '.bak'); it copies or raises
BackupCopy ==
    /\ pc = "backup"
    /\ copied' = copied \cup {files[idx]}
    /\ \E ok \in BOOLEAN :
         /\ steps' = Append(steps, << "backup", files[idx], ok >>)
         /\ IF ok
            THEN /\ bak' = [bak EXCEPT ![files[idx]] = fs[files[idx]]]
                 /\ pc' = "open"
                 /\ UNCHANGED <<stderr, exit_code>>
            ELSE /\ Uncaught("copy2", files[idx])
                 /\ UNCHANGED bak
    /\ UNCHANGED <<args, fs0, runs, fs_first, fs, files, idx, result, total_changes, files_changed,
                   files_skipped, stdout, read_from, read_failed, opened_w>>
    /\ UNCHANGED lineVars
    /\ UNCHANGED fileVars

\* line 303: open(filepath, 'w'); it truncates the file or raises
OpenForWrite ==
    /\ pc = "open"
    /\ opened_w' = opened_w \cup {files[idx]}
    /\ \E ok \in BOOLEAN :
         /\ steps' = Append(steps, << "open", files[idx], ok >>)
         /\ IF ok
            THEN /\ fs' = [fs EXCEPT ![files[idx]] = ""]
                 /\ pc' = "write"
                 /\ UNCHANGED <<stderr, exit_code>>
            ELSE /\ Uncaught("open", files[idx])
                 /\ UNCHANGED fs
    /\ UNCHANGED <<args, fs0, runs, fs_first, bak, files, idx, result, total_changes, files_changed,
                   files_skipped, stdout, read_from, read_failed, copied>>
    /\ UNCHANGED lineVars
    /\ UNCHANGED fileVars

\* line 304: how much of content is in the file when f.write or the flush
\* at the end of the with block raises: nothing, or a first part of it
PartialLengths(content) == {0, Len(content) \div 2}

\* line 304 and the end of the with block: f.write(result.new_content) and
\* close; the content reaches the file, or the write raises and leaves the
\* truncated file with nothing or a first part of the content
WriteContent ==
    /\ pc = "write"
    /\ \E ok \in BOOLEAN :
         /\ steps' = Append(steps, << "write", files[idx], ok >>)
         /\ IF ok
            THEN /\ fs' = [fs EXCEPT ![files[idx]] = result.new_content]
                 /\ idx' = idx + 1
                 /\ pc' = "loop"
                 /\ UNCHANGED <<stderr, exit_code>>
            ELSE /\ Uncaught("write", files[idx])
                 /\ \E n \in PartialLengths(result.new_content) :
                      fs' = [fs EXCEPT ![files[idx]] = SubSeq(result.new_content, 1, n)]
                 /\ UNCHANGED idx
    /\ UNCHANGED <<args, fs0, runs, fs_first, bak, files, result, total_changes, files_changed,
                   files_skipped, stdout, read_from, read_failed, opened_w, copied>>
    /\ UNCHANGED lineVars
    /\ UNCHANGED fileVars

\* mutant: Files processed leaves the skipped files out
PrintSummary_without_skipped ==
    /\ pc = "loop"
    /\ idx > Len(files)
    /\ stdout' = stdout
                 \o << << "Migration Summary", Len(files) - files_skipped, files_changed,
                          files_skipped, total_changes >> >>
                 \o (IF args.dry_run /\ files_changed > 0
                     THEN << << "This was a dry run. No files were modified." >> >>
                     ELSE << >>)
    /\ exit_code' = 0
    /\ pc' = "exited"
    /\ UNCHANGED <<args, fs0, runs, fs_first, fs, bak, files, idx, result, total_changes, files_changed,
                   files_skipped, stderr, read_from, read_failed, opened_w, copied>>
    /\ UNCHANGED steps
    /\ UNCHANGED lineVars
    /\ UNCHANGED fileVars

\* lines 306-319: the summary, the dry-run note, and main returns
PrintSummary ==
    /\ pc = "loop"
    /\ idx > Len(files)
    /\ stdout' = stdout
                 \o << << "Migration Summary", Len(files), files_changed,
                          files_skipped, total_changes >> >>
                 \o (IF args.dry_run /\ files_changed > 0
                     THEN << << "This was a dry run. No files were modified." >> >>
                     ELSE << >>)
    /\ exit_code' = 0
    /\ pc' = "exited"
    /\ UNCHANGED <<args, fs0, runs, fs_first, fs, bak, files, idx, result, total_changes, files_changed,
                   files_skipped, stderr, read_from, read_failed, opened_w, copied>>
    /\ UNCHANGED steps
    /\ UNCHANGED lineVars
    /\ UNCHANGED fileVars

\* the tool is started again with the same command line after a run with
\* --backup and without --dry-run that succeeded (exit code 0, no error
\* reported): a new process, so main starts over (line 233) with nothing
\* kept but the files and their .bak siblings; nothing edits the files
\* between the runs
Rerun ==
    /\ pc = "exited"
    /\ exit_code = 0
    /\ stderr = << >>
    /\ args.backup
    /\ ~ args.dry_run
    /\ runs < MaxRuns
    /\ runs' = runs + 1
    /\ pc' = "start"
    /\ files' = << >>
    /\ idx' = 0
    /\ result' = MigrationResult("")
    /\ total_changes' = 0
    /\ files_changed' = 0
    /\ files_skipped' = 0
    /\ stdout' = << >>
    /\ stderr' = << >>
    /\ exit_code' = None
    /\ read_from' = {}
    /\ read_failed' = {}
    /\ opened_w' = {}
    /\ copied' = {}
    /\ steps' = << >>
    /\ fs0' = fs
    /\ UNCHANGED <<args, fs, bak, fs_first>>
    /\ UNCHANGED lineVars
    /\ UNCHANGED fileVars

Next ==
    \/ CheckPath
    \/ FindFiles
    \/ ProcessFile
    \/ BackupCopy
    \/ OpenForWrite
    \/ WriteContent
    \/ PrintSummary
    \/ Rerun

Spec == Init /\ [][Next]_vars

----------------------------------------------------------------------------
(* Properties of migrate_line (SpecLine) *)

\* the level name the mapping table is documented to give for key k
ExpectedLevel(k) == IF k = "warning" THEN "warn" ELSE k

\* where the replacement of the match at i of s starts in the rewritten
\* line: each earlier match grew by len("_v2"), less the three letters
\* that warning loses
OutPos(s, i) ==
    i + 3 * Cardinality({ m \in MatchesFrom(s, 1) :
                            m < i /\ create_migration_pattern(s, m) # "warning" })

\* a reference log_level::<k>, k a legacy key, written as whole identifiers
LegacyOccurrenceAt(s, i) ==
    /\ StartsWithAt(s, i, "log_level::")
    /\ ~ (i > 1 /\ IsWordChar(CharAt(s, i - 1)))
    /\ \E n \in 1..Len(LevelKeys) :
          /\ StartsWithAt(s, i + 11, LevelKeys[n])
          /\ ~ ( /\ i + 11 + Len(LevelKeys[n]) <= Len(s)
                 /\ IsWordChar(CharAt(s, i + 11 + Len(LevelKeys[n]))) )

\* every log_level:: of s belongs to a longer identifier (my_log_level::)
\* or is followed by something that is no level name (warning_count)
ExcludedOnly(s) == \A i \in 1..Len(s) : ~ LegacyOccurrenceAt(s, i)

\* C2: every matched occurrence log_level::k is replaced by exactly
\* log_level_v2::<mapped k> and by nothing else: warning becomes warn, never
\* log_level_v2::warning, and the other five keys keep their spelling.
C2_MappingFidelity ==
    linePass = 1 =>
        /\ \A i \in MatchesFrom(lineIn, 1) :
              LET k == create_migration_pattern(lineIn, i)
                  j == OutPos(lineIn, i)
              IN  /\ StartsWithAt(lineOut, j, "log_level_v2::" \o ExpectedLevel(k))
                  /\ WordBoundary(lineOut, j + 14 + Len(ExpectedLevel(k)))
        /\ Len(lineOut) = OutPos(lineIn, Len(lineIn) + 1) - 1
        /\ (~ Contains(lineIn, "log_level_v2::warning")
              => ~ Contains(lineOut, "log_level_v2::warning"))

C2_Witness ==
    /\ linePass = 1
    /\ lineIn = "log_level::error, log_level::warning"
    /\ lineOut = "log_level_v2::error, log_level_v2::warn"

\* C3: a line whose level references are all in migrated form
\* (log_level_v2::<level>), end in log_level (my_log_level::trace) or only
\* start with a level name (log_level::warning_count) is returned unchanged
\* and flagged not changed.
C3_ExclusionCorrectness ==
    (linePass = 1 /\ ExcludedOnly(lineIn)) =>
        /\ lineOut = lineIn
        /\ lineChanged = FALSE

C3_Witness ==
    /\ linePass = 1
    /\ ExcludedOnly(lineIn)
    /\ \/ lineIn = "my_log_level::trace"
       \/ lineIn = "log_level::warning_count"
       \/ lineIn = "log_level_v2::info"
    /\ lineOut = lineIn

\* C4: after a line is rewritten, the only references log_level::<k> that
\* remain are those directly preceded by the replacement qualifier
\* log_level_v2::.
C4_RewriteCompleteness ==
    linePass = 1 =>
        \A i \in 1..Len(lineOut) :
            LegacyOccurrenceAt(lineOut, i) => EndsBefore(lineOut, i, "log_level_v2::")

----------------------------------------------------------------------------
(* Properties of migrate_file (SpecFile) *)

\* migrate_file read and rewrote the file: neither skipped nor a read error
Rewrote(r) == ~ r.skipped /\ r.error = None

\* the number of lines of content that are exactly the declaration
CountIncludeLines(content) ==
    LET lines == Split(content)
    IN  Cardinality({ n \in 1..Len(lines) : lines[n] = include_line })

\* line is an #include directive of a header file named log_level.h
IncludesLogLevelHeader(line) ==
    \E i \in 1..Len(line) :
        /\ StartsWithAt(line, i, "#include")
        /\ LET j == SkipSpaces(line, i + 8)
           IN  /\ CharAt(line, j) \in {"<", "\""}
               /\ \E k \in (j + 1)..Len(line) :
                    /\ StartsWithAt(line, k, "log_level.h")
                    /\ CharAt(line, k + 11) \in {">", "\""}
                    /\ (k = j + 1 \/ CharAt(line, k - 1) = "/")

\* content has at least one legacy occurrence the rewriter matches
HasLegacyOccurrence(content) ==
    LET lines == Split(content)
    IN  \E n \in 1..Len(lines) : MatchesFrom(lines[n], 1) # {}

\* no line of content is an #include directive of a header log_level.h
NoLogLevelHeader(content) ==
    LET lines == Split(content)
    IN  \A n \in 1..Len(lines) : ~ IncludesLogLevelHeader(lines[n])

\* C1: rewriting the result of rewriting a file yields the same content
\* as rewriting it once, and the second pass records zero changes.
C1_Idempotence ==
    (fileCalls = 2 /\ Rewrote(filePrev)) =>
        /\ fileResult.original_content = filePrev.new_content
        /\ fileResult.new_content = filePrev.new_content
        /\ fileResult.changes = << >>

C1_Witness ==
    /\ fileCalls = 2
    /\ Rewrote(filePrev)
    /\ Len(filePrev.changes) = 2
    /\ ~ Contains(filePrev.original_content, include_line)
    /\ Contains(filePrev.new_content, include_line)
    /\ fileResult.new_content = filePrev.new_content

\* C7: for a file with N >= 1 legacy occurrences and no include of
\* log_level.h, the new content holds exactly one declaration line, and
\* migrating that output again leaves the count at one.
C7_IncludeSingleShot ==
    /\ ( /\ fileCalls = 1
         /\ Rewrote(fileResult)
         /\ HasLegacyOccurrence(fileResult.original_content)
         /\ NoLogLevelHeader(fileResult.original_content) )
       => CountIncludeLines(fileResult.new_content) = 1
    /\ ( /\ fileCalls = 2
         /\ Rewrote(filePrev)
         /\ HasLegacyOccurrence(filePrev.original_content)
         /\ NoLogLevelHeader(filePrev.original_content) )
       => CountIncludeLines(fileResult.new_content) = 1

\* C8: for every result of migrate_file (skipped, read error, unchanged or
\* changed) the changes list is non-empty iff new_content differs from
\* original_content.
C8_ChangesIffContentDiffers ==
    fileCalls >= 1 =>
        ((fileResult.changes # << >>)
            <=> (fileResult.new_content # fileResult.original_content))

C8_Witness ==
    /\ fileCalls = 1
    /\ Rewrote(fileResult)
    /\ fileResult.changes # << >>
    /\ fileResult.new_content # fileResult.original_content
    /\ Len(fileResult.new_content) = Len(fileResult.original_content)

----------------------------------------------------------------------------
(* Properties of a run of main (Spec) *)

\* the base name of path matches one of the skip patterns
MatchesSkipPattern(path) ==
    \E n \in 1..Len(SKIP_PATTERNS) : Contains(basename(path), SKIP_PATTERNS[n])

\* the path on the command line names neither the root nor a file
PathMissing == args.path # RootDir /\ (args.path \notin DOMAIN fs \/ fs[args.path] = NoFile)

\* C5: in every run, dry or not, with or without --backup, a discovered
\* file whose base name matches a skip pattern is never opened for writing
\* nor backed up; its result is skipped with no changes, and it adds one to
\* files_skipped and nothing to files_changed and total_changes.
C5_SkipEnforcement ==
    [][ /\ \A q \in opened_w' \cup copied' : ~ MatchesSkipPattern(q)
        /\ \A q \in DOMAIN fs :
              MatchesSkipPattern(q) => (fs'[q] = fs[q] /\ bak'[q] = bak[q])
        /\ (pc = "loop" /\ idx <= Len(files) /\ MatchesSkipPattern(files[idx]))
              => /\ result'.path = files[idx]
                 /\ result'.skipped = TRUE
                 /\ result'.changes = << >>
                 /\ files_skipped' = files_skipped + 1
                 /\ files_changed' = files_changed
                 /\ total_changes' = total_changes
                 /\ idx' = idx + 1
                 /\ pc' = "loop" ]_vars

C5_Witness ==
    /\ pc = "exited"
    /\ exit_code = 0
    /\ ~ args.dry_run
    /\ args.backup
    /\ files = << "src/a.cpp", "src/logger_interface.h" >>
    /\ fs["src/logger_interface.h"] = "x = log_level::error;"
    /\ bak["src/logger_interface.h"] = NoFile
    /\ bak["src/a.cpp"] # NoFile
    /\ files_skipped = 1
    /\ files_changed = 1

\* C6: in a run with --dry-run, whatever --diff, --verbose and --backup
\* are, no file is opened for writing and no backup is made, and no step
\* changes the content of any file.
C6_DryRunPurity ==
    [][ args.dry_run =>
          /\ fs' = fs
          /\ bak' = bak
          /\ opened_w' = {}
          /\ copied' = {} ]_vars

C6_Witness ==
    /\ pc = "exited"
    /\ exit_code = 0
    /\ args.dry_run
    /\ args.backup
    /\ files_changed = 2
    /\ total_changes = 2
    /\ \A q \in DOMAIN bak : bak[q] = NoFile

\* C9: when the supplied path does not exist the process exits with code 1
\* before file discovery, and no file is read, backed up or written.
C9_PathNotFound ==
    (pc # "start" /\ PathMissing) =>
        /\ pc = "exited"
        /\ exit_code = 1
        /\ files = << >>
        /\ stdout = << >>
        /\ read_from = {}
        /\ opened_w = {}
        /\ copied = {}

C9_Witness ==
    /\ pc = "exited"
    /\ exit_code = 1
    /\ args.path = "src/a.cpp"
    /\ fs["src/a.cpp"] = NoFile
    /\ fs["src/z.hpp"] = "x = log_level::error;"
    /\ ~ args.dry_run
    /\ stderr = << << "Error: Path does not exist", "src/a.cpp" >> >>

\* C10: when reading a discovered file fails, that file gets an error
\* result, is neither backed up nor written and is counted neither as
\* changed nor as skipped; every later file is still processed and the
\* process ends with exit code 0.
C10_ReadErrorRecovery ==
    [][ /\ \A q \in read_failed' : q \notin opened_w' /\ q \notin copied'
        /\ (pc = "loop" /\ idx <= Len(files) /\ files[idx] \in read_failed')
              => /\ result'.error # None
                 /\ files_changed' = files_changed
                 /\ files_skipped' = files_skipped
                 /\ total_changes' = total_changes
                 /\ idx' = idx + 1
                 /\ pc' = "loop"
        /\ (read_failed' # {} /\ pc' = "exited")
              => /\ idx' = Len(files') + 1
                 /\ exit_code' = 0 ]_vars

----------------------------------------------------------------------------
(* Properties of the write path of main (Spec) *)

\* the positions of steps at which a backup copy, an open for writing or a
\* write raised
FailedWrites ==
    { k \in 1..Len(steps) :
        steps[k][1] \in {"backup", "open", "write"} /\ ~ steps[k][3] }

\* the files main has started to process
Started == { steps[k][2] : k \in 1..Len(steps) }

\* C11: in a run that is not a dry run, a backup copy or a write that fails
\* for one changed file does not abort the batch: when the process has
\* ended, every discovered file, the later ones included, was processed.
C11_WriteErrorContainment ==
    (pc = "exited" /\ FailedWrites # {}) =>
        \A n \in 1..Len(files) : files[n] \in Started

\* the number of times the Migration Summary was printed
SummaryCount ==
    Cardinality({ k \in 1..Len(stdout) : stdout[k][1] = "Migration Summary" })

\* C12: every invocation whose path exists has printed the Migration Summary
\* exactly once when the process has terminated, whether or not a read, a
\* backup copy or a write failed and whether or not files or changes were
\* found; the summary is never printed more than once.
C12_SummaryAlwaysPrinted ==
    /\ SummaryCount <= 1
    /\ (pc = "exited" /\ ~ PathMissing) => SummaryCount = 1

\* path ends with one of the supported extensions
HasSupportedExtension(path) ==
    \E e \in SUPPORTED_EXTENSIONS : EndsBefore(path, Len(path) + 1, e)

\* the supported source files the run was pointed at, as they were when main
\* started: those under the root, or the one file named
Discovered ==
    { q \in DOMAIN fs0 :
        /\ fs0[q] # NoFile
        /\ HasSupportedExtension(q)
        /\ args.path = RootDir \/ args.path = q }

\* the number of lines of content that hold a legacy occurrence the tool
\* rewrites
ChangedLineCount(content) ==
    LET lines == Split(content)
    IN  Cardinality({ n \in 1..Len(lines) : MatchesFrom(lines[n], 1) # {} })

\* the discovered files that are not skipped, were read, and have at least
\* one changed line
ChangedFiles ==
    { q \in Discovered :
        /\ ~ MatchesSkipPattern(q)
        /\ q \notin read_failed
        /\ ChangedLineCount(fs0[q]) > 0 }

RECURSIVE SumChangedLines(_)
SumChangedLines(S) ==
    IF S = {} THEN 0
    ELSE LET q == CHOOSE x \in S : TRUE
         IN  ChangedLineCount(fs0[q]) + SumChangedLines(S \ {q})

\* C13: when the summary is printed, Files processed is the number of
\* discovered files (skipped and unreadable ones included), Files changed
\* the number of non-skipped readable files with at least one changed line,
\* Files skipped the number of discovered files matching a skip pattern,
\* and Total changes the sum of the changed-line counts of the changed
\* files.
C13_SummaryCountersExact ==
    \A k \in 1..Len(stdout) :
        stdout[k][1] = "Migration Summary" =>
            stdout[k] = << "Migration Summary",
                           Cardinality(Discovered),
                           Cardinality(ChangedFiles),
                           Cardinality({ q \in Discovered : MatchesSkipPattern(q) }),
                           SumChangedLines(ChangedFiles) >>

\* three files of which two have matches (three changed lines in all):
\* processed 3, changed 2, skipped 0
C13_Witness ==
    /\ pc = "exited"
    /\ Len(files) = 3
    /\ Cardinality({ q \in DOMAIN fs0 : fs0[q] # NoFile /\ HasLegacyOccurrence(fs0[q])
                                        /\ q \in RunPaths }) = 2
    /\ read_failed = {}
    /\ \E k \in 1..Len(stdout) : stdout[k] = << "Migration Summary", 3, 2, 0, 3 >>

\* C14: with --backup, whenever a step opens a file for writing or changes
\* its content, the copy to <path>.bak was made before that step and
\* <path>.bak holds the content the file had when the run started; without
\* --backup no .bak file exists after any step.
C14_BackupPrecedesOverwrite ==
    [][ /\ args.backup =>
             \A q \in DOMAIN fs :
                 (fs'[q] # fs[q] \/ q \in opened_w' \ opened_w) =>
                     /\ q \in copied
                     /\ bak[q] = fs0[q]
                     /\ bak'[q] = fs0[q]
        /\ ~ args.backup => \A q \in DOMAIN bak : bak'[q] = NoFile /\ copied' = {} ]_vars

C14_Witness ==
    /\ pc = "exited"
    /\ exit_code = 0
    /\ args.backup
    /\ ~ args.dry_run
    /\ Len(files) = 2
    /\ \A n \in 1..2 :
          /\ files[n] \in opened_w
          /\ fs[files[n]] # fs0[files[n]]
          /\ bak[files[n]] = fs0[files[n]]

----------------------------------------------------------------------------
(* Properties of the include injection and of the changes list (SpecFile) *)

\* line is an #include directive
IsIncludeLine(line) == StartsWithAt(line, 1, "#include")

\* line is an #include directive of a kcenon/thread header
IsProjectInclude(line) ==
    IsIncludeLine(line) /\ Contains(line, "kcenon/thread/")

\* the lines of the rewritten file before the declaration is added
RewrittenLines(r) == Split(rewritten(r.original_content))

\* migrate_file added the declaration to the file of r
Inserted(r) ==
    /\ Rewrote(r)
    /\ r.changes # << >>
    /\ Len(Split(r.new_content)) = Len(RewrittenLines(r)) + 1

\* the new content of r is the rewritten file with the declaration as a
\* line of its own right after line n (n = 0: as the first line)
InsertedAfter(r, n) ==
    LET old == RewrittenLines(r)
    IN  Split(r.new_content)
          = SubSeq(old, 1, n) \o << include_line >> \o SubSeq(old, n + 1, Len(old))

\* the greatest element of a non-empty set of numbers
Greatest(S) == CHOOSE n \in S : \A m \in S : m <= n

\* the least element of a non-empty set of numbers
Least(S) == CHOOSE n \in S : \A m \in S : n <= m

\* the #include lines of the rewritten file
IncludeLinesOf(r) ==
    LET old == RewrittenLines(r)
    IN  { n \in 1..Len(old) : IsIncludeLine(old[n]) }

\* the kcenon/thread #include lines of the rewritten file
ProjectIncludeLinesOf(r) ==
    LET old == RewrittenLines(r)
    IN  { n \in 1..Len(old) : IsProjectInclude(old[n]) }

\* the lines of the rewritten file that are a #pragma once or an
\* #ifndef ..._H guard
GuardLinesOf(r) ==
    LET old == RewrittenLines(r)
    IN  { n \in 1..Len(old) :
            \/ StartsWithAt(old[n], 1, "#pragma once")
            \/ /\ StartsWithAt(old[n], 1, "#ifndef ")
               /\ Contains(old[n], "_H") }

\* C15: when the rewritten file has no kcenon/thread include but has one or
\* more other #include lines, the declaration is inserted immediately after
\* the last #include line of the file.
C15_InsertAfterLastInclude ==
    (/\ fileCalls >= 1
     /\ Inserted(fileResult)
     /\ ProjectIncludeLinesOf(fileResult) = {}
     /\ IncludeLinesOf(fileResult) # {})
        => InsertedAfter(fileResult, Greatest(IncludeLinesOf(fileResult)))

\* C16: when the rewritten file has at least one kcenon/thread include line,
\* the declaration is inserted immediately after the last such line,
\* wherever the other #include lines stand.
C16_InsertAfterLastProjectInclude ==
    (/\ fileCalls >= 1
     /\ Inserted(fileResult)
     /\ ProjectIncludeLinesOf(fileResult) # {})
        => InsertedAfter(fileResult, Greatest(ProjectIncludeLinesOf(fileResult)))

\* another #include before the project include and a legacy line after it
C16_Witness ==
    /\ fileCalls = 1
    /\ fileResult.original_content
         = "#include <vector>\n#include <kcenon/thread/a.h>\nx = log_level::warning;"
    /\ fileResult.new_content
         = "#include <vector>\n#include <kcenon/thread/a.h>\n"
           \o "#include <kcenon/thread/core/log_level.h>\nx = log_level_v2::warn;"

\* the guard lines of the rewritten file that lead it: nothing but blank
\* lines and other guard lines stands before them
LeadingGuardLinesOf(r) ==
    LET old == RewrittenLines(r)
        guards == GuardLinesOf(r)
    IN  { n \in guards :
            \A m \in 1..(n - 1) : Strip(old[m]) = "" \/ m \in guards }

C18_InjectionTrigger ==
    /\ (fileCalls >= 1 /\ Rewrote(fileResult)) =>
          /\ CountIncludeLines(fileResult.new_content)
                > CountIncludeLines(fileResult.original_content)
               => /\ fileResult.changes # << >>
                  /\ NoLogLevelHeader(fileResult.original_content)
          /\ fileResult.changes = << >>
               => fileResult.new_content = fileResult.original_content
          /\ (fileResult.changes # << >>
                /\ ~ NoLogLevelHeader(fileResult.original_content))
               => CountIncludeLines(fileResult.new_content)
                     = CountIncludeLines(fileResult.original_content)
    /\ (fileCalls = 2 /\ Rewrote(filePrev) /\ filePrev.changes = << >>) =>
          fileContent = filePrev.original_content

\* a file that uses log_level_v2:: without the include and has no legacy
\* line: nothing rewritten, nothing added
C18_Witness ==
    /\ fileCalls = 2
    /\ filePrev.original_content = "#pragma once\ny = log_level_v2::debug;"
    /\ filePrev.changes = << >>
    /\ filePrev.new_content = "#pragma once\ny = log_level_v2::debug;"
    /\ fileContent = "#pragma once\ny = log_level_v2::debug;"

\* C19: the changes list has exactly one entry for each line of the
\* original content whose text differs after the substitution and none for
\* any other line; an entry carries the 1-based number of its line with the
\* trimmed line before and after; the entries are in strictly increasing
\* line order; in the rewritten line of an entry no legacy occurrence is
\* left, however many the line had.
C19_ChangeTracking ==
    (fileCalls >= 1 /\ Rewrote(fileResult)) =>
        LET lines == Split(fileResult.original_content)
            after == RewrittenLines(fileResult)
            changes == fileResult.changes
        IN  /\ { changes[k][1] : k \in 1..Len(changes) }
                  = { n \in 1..Len(lines) : after[n] # lines[n] }
            /\ \A k \in 1..(Len(changes) - 1) : changes[k][1] < changes[k + 1][1]
            /\ \A k \in 1..Len(changes) :
                  /\ changes[k][1] \in 1..Len(lines)
                  /\ changes[k][2] = Strip(lines[changes[k][1]])
                  /\ changes[k][3] = Strip(after[changes[k][1]])
                  /\ MatchesFrom(changes[k][3], 1) = {}

\* an unchanged first line, a second line with two occurrences, a third
\* line with one: two entries, numbered 2 and 3
C19_Witness ==
    /\ fileCalls = 1
    /\ fileResult.original_content
         = "#pragma once\n  f(ns::log_level::info, log_level::error);\nx = log_level::warning;"
    /\ fileResult.changes
         = << << 2, "f(ns::log_level::info, log_level::error);",
                    "f(ns::log_level_v2::info, log_level_v2::error);" >>,
              << 3, "x = log_level::warning;", "x = log_level_v2::warn;" >> >>

----------------------------------------------------------------------------
(* Properties of the order of the steps of main (Spec) *)

\* the steps of one file in the order the claim gives them
StepOrder ==
    << "skip check", "read", "rewrite", "inject", "report", "backup", "open", "write" >>

StepRank(step) == CHOOSE n \in 1..Len(StepOrder) : StepOrder[n] = step

\* the position of path in the discovered list
FileRank(path) == CHOOSE n \in 1..Len(files) : files[n] = path

\* C20: the discovered files are in ascending sorted path order and are
\* processed one at a time in that order; the steps of one file occur in
\* the order skip check, read, rewrite, include injection, report, backup,
\* write (the write being the open and the write proper); a step of the
\* next file comes only after the last step of the file before it, and
\* after its write has finished when that file was opened for writing.
C20_SequentialOrdering ==
    /\ \A n \in 1..(Len(files) - 1) : StringLess(files[n], files[n + 1])
    /\ \A k \in 1..Len(steps) :
          /\ steps[k][1] \in { StepOrder[n] : n \in 1..Len(StepOrder) }
          /\ \E n \in 1..Len(files) : files[n] = steps[k][2]
    /\ steps # << >> => steps[1] = << "skip check", files[1], TRUE >>
    /\ \A k \in 1..(Len(steps) - 1) :
          IF steps[k][2] = steps[k + 1][2]
          THEN /\ StepRank(steps[k][1]) < StepRank(steps[k + 1][1])
               /\ steps[k][3]
          ELSE /\ FileRank(steps[k + 1][2]) = FileRank(steps[k][2]) + 1
               /\ steps[k + 1][1] = "skip check"
               /\ steps[k][1] \notin {"backup", "open"}
               /\ steps[k][1] = "write" => steps[k][3]

\* two changed files, each backed up and written: the eight steps of the
\* first, then the eight steps of the second
C20_Witness ==
    /\ pc = "exited"
    /\ exit_code = 0
    /\ files = << "src/a.cpp", "src/z.hpp" >>
    /\ Len(steps) = 16
    /\ \A n \in 1..8 :
          /\ steps[n] = << StepOrder[n], "src/a.cpp", TRUE >>
          /\ steps[n + 8] = << StepOrder[n], "src/z.hpp", TRUE >>

----------------------------------------------------------------------------
(* Properties of the write itself and of repeated runs (Spec) *)

\* the complete new content the run gives the file at path q
NewContentOf(q) == migrate_file(q, TRUE, fs0[q]).new_content

\* C21: at every point of a run that is not a dry run, so wherever the run
\* is interrupted or fails while a changed file is being written, the file
\* at the original path holds its complete original content or the
\* complete new content, never an empty or partly written one.
C21_AtomicWrite ==
    \A q \in DOMAIN fs :
        fs0[q] # NoFile => fs[q] = fs0[q] \/ fs[q] = NewContentOf(q)

\* C22: over consecutive runs with --backup and without --dry-run that end
\* with exit code 0, with nothing else editing the files, every <path>.bak
\* that exists holds the content the file had before the first run; a run
\* after the first neither copies nor opens for writing a file an earlier
\* run has rewritten.
C22_BackupsSurviveReruns ==
    (args.backup /\ ~ args.dry_run) =>
        \A q \in DOMAIN bak :
            /\ bak[q] # NoFile => bak[q] = fs_first[q]
            /\ fs0[q] # fs_first[q] => q \notin copied /\ q \notin opened_w

\* a second run has ended over two files the first run rewrote and backed
\* up: it read both, changed nothing, and the backups are the originals
C22_Witness ==
    /\ runs = 2
    /\ pc = "exited"
    /\ exit_code = 0
    /\ files = << "src/a.cpp", "src/z.hpp" >>
    /\ read_from = {"src/a.cpp", "src/z.hpp"}
    /\ read_failed = {}
    /\ files_changed = 0
    /\ copied = {}
    /\ opened_w = {}
    /\ \A n \in 1..2 :
          /\ fs[files[n]] # fs_first[files[n]]
          /\ bak[files[n]] = fs_first[files[n]]

====
